---- MODULE Spec2Model ----
(***************************************************************************)
(* Model of the job crawlers of backend/bot.py (LinkedInBot) and           *)
(* backend/kariyer_bot.py (KariyerNetBot).                                 *)
(*                                                                         *)
(* One behaviour is one call of search_jobs(role, location, max_jobs).     *)
(* Texts are sequences of one-character strings, so that membership        *)
(* ('*' in title), length, count(' ') and startswith are computed, not     *)
(* assumed.  The remote sites are the environment: every page fetch,       *)
(* every card on a page and every detail page is drawn from a set of       *)
(* inputs at the step that reads it.                                       *)
(***************************************************************************)
EXTENDS Naturals, Integers, Sequences, FiniteSets, TLC

(* ------------------------------ bounds -------------------------------- *)
\* largest max_jobs a caller passes
MaxJobs == 2
\* most job cards a fetched page holds
MaxCards == 2

(* ------------------------- program constants -------------------------- *)
\* a page range one step too long
NinePages == 8 + 1
\* len(list(range(0, 200, 25))) and len(range(1, 9))
NumPages == 8
\* len(title) < 3
MinTitleLen == 3
\* title.count(' ') > 10
MaxTitleSpaces == 10
\* len(title) > 5 ends LinkedIn's title cascade
CascadeTitleLen == 5
\* len(text) > 50 makes a description valid
MinDescLen == 50
\* text[:2000]
MaxDescLen == 2000
\* 100 < len(text) < 5000 in the fallback over all divs
FallbackMinLen == 100
FallbackMaxLen == 5000

(* ------------------------------- texts -------------------------------- *)
Empty == << >>
Dev == <<"D","e","v">>
DevOps == <<"D","e","v","O","p","s">>
Masked == <<"D","*","v","*","*","*">>
Short == <<"a","b">>
Wordy == <<"a"," ","b"," ","c"," ","d"," ","e"," ","f"," ","g"," ","h"," ","i"," ","j"," ","k"," ","l">>
StarRole == <<"C","*","*">>
Acme == <<"A","c","m","e">>
MaskedCo == <<"A","*","*","e">>
Img == <<"i",".","p","n","g">>
HrefPath == <<"/","j">>
HrefHttps == <<"h","t","t","p","s",":","/","/","x">>
HrefHttpRel == <<"h","t","t","p","x">>
HrefFtp == <<"f","t","p",":","/","/","x">>
HrefRel == <<"j">>

\* company = "Unknown"
Unknown == <<"U","n","k","n","o","w","n">>
\* the fixed company sentinel (written with a plain S)
Sirket == <<"S","i","r","k","e","t">>
\* link = "#"
Hash == <<"#">>
\* the argument of href.startswith('http')
Http == <<"h","t","t","p">>
Slash == <<"/">>
LinkedInOrigin == <<"h","t","t","p","s",":","/","/","w","w","w",".","l","i","n","k","e","d","i","n",".","c","o","m">>
KariyerOrigin == <<"h","t","t","p","s",":","/","/","w","w","w",".","k","a","r","i","y","e","r",".","n","e","t">>

\* c in s
HasChar(s, c) == \E i \in 1..Len(s) : s[i] = c
\* s.count(c)
CountChar(s, c) == Cardinality({i \in 1..Len(s) : s[i] = c})
\* s.startswith(p)
StartsWith(s, p) == Len(s) >= Len(p) /\ SubSeq(s, 1, Len(p)) = p

(* --------------------- elements found by the parser -------------------- *)
\* find() returned None
NoElem == [found |-> FALSE, text |-> Empty]
\* find() returned an element whose get_text(strip=True), or attribute, is t
Elem(t) == [found |-> TRUE, text |-> t]

\* the first <a href=...> of a card: its href and its text
NoAnchor == [found |-> FALSE, href |-> Empty, label |-> Empty]
Anchor(h, t) == [found |-> TRUE, href |-> h, label |-> t]

\* the first <img src=...> of a card: its src and its data-delayed-url
NoImg == [found |-> FALSE, src |-> Empty, delayed |-> NoElem]
ImgElem(s, d) == [found |-> TRUE, src |-> s, delayed |-> d]

(* ------------------ LinkedInBot._extract_job_data --------------------- *)
RECURSIVE LinkedInTitleCascade(_, _, _)
\* the loop over title_selectors: title is the text of the last element
\* found, and the loop stops at the first text longer than 5
LinkedInTitleCascade(sels, i, title) ==
    IF i > Len(sels) THEN title
    ELSE IF sels[i].found
         THEN IF sels[i].text # Empty /\ Len(sels[i].text) > CascadeTitleLen
              THEN sels[i].text
              ELSE LinkedInTitleCascade(sels, i + 1, sels[i].text)
         ELSE LinkedInTitleCascade(sels, i + 1, title)

\* title after the cascade and the h3 fallback; Empty stands for None and ''
LinkedInTitle(card) ==
    LET t == LinkedInTitleCascade(card.titleSel, 1, Empty)
    IN  IF t # Empty THEN t
        ELSE IF card.h3.found THEN card.h3.text ELSE Empty

RECURSIVE LinkedInCompanyCascade(_, _, _)
\* the loop over company_selectors: stops at the first non-empty text
LinkedInCompanyCascade(sels, i, company) ==
    IF i > Len(sels) THEN company
    ELSE IF sels[i].found
         THEN IF sels[i].text # Empty
              THEN sels[i].text
              ELSE LinkedInCompanyCascade(sels, i + 1, sels[i].text)
         ELSE LinkedInCompanyCascade(sels, i + 1, company)

LinkedInCompany(card) ==
    LET c == LinkedInCompanyCascade(card.companySel, 1, Unknown)
    IN  IF c = Unknown /\ card.h4.found THEN card.h4.text ELSE c

\* the link of a card whose first <a href> is `a` (both bots, their origin)
ResolveLink(origin, a) ==
    IF ~a.found THEN Hash
    ELSE IF StartsWith(a.href, Slash) THEN origin \o a.href
    ELSE IF StartsWith(a.href, Http) THEN a.href
    ELSE Hash

\* img.get('src') or img.get('data-delayed-url'), None without an img
ImageUrl(img) ==
    IF ~img.found THEN NoElem
    ELSE IF img.src # Empty THEN Elem(img.src)
    ELSE img.delayed

\* None
NoJob == [none |-> TRUE]
\* the dict of a job; description is the length of its text
Job(t, c, l, i, d) ==
    [title |-> t, company |-> c, link |-> l, image_url |-> i, description |-> d]

\* the record of a card, NoJob when no title is found or the parser raises
LinkedInExtract(card) ==
    IF card.raises THEN NoJob
    ELSE IF LinkedInTitle(card) = Empty THEN NoJob
    ELSE Job(LinkedInTitle(card), LinkedInCompany(card),
             ResolveLink(LinkedInOrigin, card.a), ImageUrl(card.img), 0)

(* ----------------- KariyerNetBot._extract_job_data -------------------- *)
\* title before the substitution: the title element, else the first <a href>
KariyerRawTitle(card) ==
    IF card.titleElem.found /\ card.titleElem.text # Empty
    THEN card.titleElem.text
    ELSE IF card.a.found THEN card.a.label ELSE Empty

KariyerTitle(card, search_role) ==
    LET t == KariyerRawTitle(card)
    IN  IF t = Empty \/ Len(t) < MinTitleLen \/ HasChar(t, "*")
        THEN search_role ELSE t

KariyerCompany(card) ==
    LET c == IF card.companyElem.found THEN card.companyElem.text ELSE Sirket
    IN  IF c = Empty \/ HasChar(c, "*") THEN Sirket ELSE c

\* the record of a card, NoJob only when the parser raises
KariyerExtract(card, search_role) ==
    IF card.raises THEN NoJob
    ELSE Job(KariyerTitle(card, search_role), KariyerCompany(card),
             ResolveLink(KariyerOrigin, card.a), NoElem,
             IF card.locElem.found THEN Len(card.locElem.text) ELSE 0)

(* --------------------------- inputs: cards ---------------------------- *)
\* a LinkedIn card as the parser sees it: the elements of the four title
\* selectors, the first h3, the elements of the three company selectors, the
\* first h4, the first <a href>, the first <img src>; raises: the parser
\* raises while the card is read
LinkedInBase ==
    [titleSel |-> <<Elem(DevOps), NoElem, NoElem, NoElem>>, h3 |-> Elem(DevOps),
     companySel |-> <<Elem(Acme), NoElem, NoElem>>, h4 |-> Elem(Acme),
     a |-> Anchor(HrefPath, DevOps), img |-> NoImg, raises |-> FALSE]

LinkedInCards ==
    { LinkedInBase,
      \* a short first title is overridden by a later, masked one
      [LinkedInBase EXCEPT !.titleSel = <<Elem(Dev), NoElem, Elem(Masked), NoElem>>,
                           !.h3 = Elem(Dev)],
      \* masked title and masked company
      [LinkedInBase EXCEPT !.titleSel = <<Elem(Masked), NoElem, NoElem, NoElem>>,
                           !.h3 = Elem(Masked),
                           !.companySel = <<Elem(MaskedCo), NoElem, NoElem>>,
                           !.h4 = Elem(MaskedCo)],
      \* no title anywhere
      [LinkedInBase EXCEPT !.titleSel = <<NoElem, NoElem, NoElem, NoElem>>,
                           !.h3 = NoElem],
      \* title elements with empty text, a title in the first h3 only
      [LinkedInBase EXCEPT !.titleSel = <<NoElem, NoElem, Elem(Empty), NoElem>>,
                           !.h3 = Elem(Dev)],
      [LinkedInBase EXCEPT !.titleSel = <<NoElem, NoElem, Elem(Short), NoElem>>,
                           !.h3 = NoElem],
      [LinkedInBase EXCEPT !.titleSel = <<Elem(Wordy), NoElem, NoElem, NoElem>>,
                           !.h3 = Elem(Wordy)],
      \* company: none found, found empty, found only in the first h4
      [LinkedInBase EXCEPT !.companySel = <<NoElem, NoElem, NoElem>>, !.h4 = NoElem],
      [LinkedInBase EXCEPT !.companySel = <<NoElem, Elem(Empty), NoElem>>, !.h4 = NoElem],
      \* links
      [LinkedInBase EXCEPT !.a = NoAnchor],
      [LinkedInBase EXCEPT !.a = Anchor(Empty, DevOps)],
      [LinkedInBase EXCEPT !.a = Anchor(HrefHttps, DevOps)],
      [LinkedInBase EXCEPT !.a = Anchor(HrefHttpRel, DevOps)],
      [LinkedInBase EXCEPT !.a = Anchor(HrefFtp, DevOps)],
      [LinkedInBase EXCEPT !.a = Anchor(HrefRel, DevOps)],
      \* images
      [LinkedInBase EXCEPT !.img = ImgElem(Img, NoElem)],
      [LinkedInBase EXCEPT !.img = ImgElem(Empty, Elem(Img))],
      [LinkedInBase EXCEPT !.raises = TRUE] }

\* a Kariyer.net card: the title element, the company element, the location
\* element and the first <a href> with its text
KariyerBase ==
    [titleElem |-> Elem(DevOps), companyElem |-> Elem(Acme), locElem |-> NoElem,
     a |-> Anchor(HrefPath, Dev), raises |-> FALSE]

KariyerCards ==
    { KariyerBase,
      [KariyerBase EXCEPT !.titleElem = NoElem],
      [KariyerBase EXCEPT !.titleElem = NoElem, !.a = NoAnchor],
      [KariyerBase EXCEPT !.titleElem = Elem(Empty), !.a = Anchor(HrefPath, Empty)],
      [KariyerBase EXCEPT !.titleElem = Elem(Short)],
      [KariyerBase EXCEPT !.titleElem = Elem(Masked), !.companyElem = Elem(MaskedCo)],
      [KariyerBase EXCEPT !.titleElem = Elem(Wordy)],
      [KariyerBase EXCEPT !.companyElem = NoElem],
      [KariyerBase EXCEPT !.companyElem = Elem(Empty)],
      [KariyerBase EXCEPT !.a = Anchor(HrefHttps, Dev)],
      [KariyerBase EXCEPT !.a = Anchor(HrefHttpRel, Dev)],
      [KariyerBase EXCEPT !.a = Anchor(HrefFtp, Dev)],
      [KariyerBase EXCEPT !.a = Anchor(HrefRel, Dev)],
      [KariyerBase EXCEPT !.locElem = Elem(Acme)],
      [KariyerBase EXCEPT !.raises = TRUE] }

Bots == {"LinkedInBot", "KariyerNetBot"}
Roles == {Empty, Dev, StarRole}
CardsOf(b) == IF b = "LinkedInBot" THEN LinkedInCards ELSE KariyerCards
\* no card has been examined by the latest step
NoCard == [none |-> TRUE]

(* ------------------- the card loop of search_jobs --------------------- *)
\* any(j['title'] == title and j['company'] == company for j in jobs)
IsDuplicate(js, title, company) ==
    \E i \in 1..Len(js) : js[i].title = title /\ js[i].company = company

\* the substitution of the company alone: a masked title is kept
LinkedInSubstituteCompanyOnly(jd, search_role) ==
    [jd EXCEPT !.company = IF HasChar(jd.company, "*") THEN Sirket ELSE jd.company]

\* job_data after the two substitutions of LinkedInBot.search_jobs
LinkedInSubstitute(jd, search_role) ==
    [jd EXCEPT !.title = IF HasChar(jd.title, "*") THEN search_role ELSE jd.title,
               !.company = IF HasChar(jd.company, "*") THEN Sirket ELSE jd.company]

\* if len(title) < 3 or title.count(' ') > 10: continue
LinkedInRejects(title) ==
    Len(title) < MinTitleLen \/ CountChar(title, " ") > MaxTitleSpaces

\* the duplicate test made on the title as extracted, before the substitution
LinkedInProcessRawDedup(js, card, search_role) ==
    LET jd == LinkedInExtract(card)
    IN  IF jd = NoJob THEN js
        ELSE IF jd.title = Empty THEN js
        ELSE LET sub == LinkedInSubstitute(jd, search_role)
             IN  IF LinkedInRejects(sub.title) THEN js
                 ELSE IF IsDuplicate(js, jd.title, jd.company) THEN js
                 ELSE Append(js, sub)

\* jobs after one pass of the body of `for card in job_cards` (LinkedInBot)
LinkedInProcess(js, card, search_role) ==
    LET jd == LinkedInExtract(card)
    IN  IF jd = NoJob THEN js
        ELSE IF jd.title = Empty THEN js
        ELSE LET sub == LinkedInSubstitute(jd, search_role)
             IN  IF LinkedInRejects(sub.title) THEN js
                 ELSE IF IsDuplicate(js, sub.title, sub.company) THEN js
                 ELSE Append(js, sub)

\* jobs after one pass of the body of `for card in job_cards` (KariyerNetBot)
KariyerProcess(js, card, search_role) ==
    LET jd == KariyerExtract(card, search_role)
    IN  IF jd = NoJob THEN js
        ELSE IF IsDuplicate(js, jd.title, jd.company) THEN js
        ELSE Append(js, jd)

ProcessOf(b, js, card, search_role) ==
    IF b = "LinkedInBot" THEN LinkedInProcess(js, card, search_role)
    ELSE KariyerProcess(js, card, search_role)

(* --------------------------- inputs: pages ---------------------------- *)
\* the transport raised (connection error, timeout)
PageError == [kind |-> "error", status |-> 0, containers |-> <<0, 0, 0, 0>>]
\* a response: its status and, per container strategy of the bot in the
\* order the code tries them, how many elements the strategy matches
PageResponses ==
    {PageError, [kind |-> "response", status |-> 404, containers |-> <<0, 0, 0, 0>>]}
    \cup [kind : {"response"}, status : {200}, containers : [1..4 -> 0..MaxCards]]

\* LinkedInBot: get() raises or raise_for_status() raises (4xx, 5xx);
\* KariyerNetBot: get() raises or status_code != 200
PageFetchFails(b, resp) ==
    IF b = "LinkedInBot"
    THEN resp.kind = "error" \/ (resp.status >= 400 /\ resp.status < 600)
    ELSE resp.kind = "error" \/ resp.status # 200

RECURSIVE FirstMatchWholePage(_, _)
\* a cascade that falls back to the page itself as one card
FirstMatchWholePage(containers, i) ==
    IF i > Len(containers) THEN 1
    ELSE IF containers[i] # 0 THEN containers[i]
    ELSE FirstMatchWholePage(containers, i + 1)

RECURSIVE FirstMatchCombined(_, _)
\* a cascade that adds up the matches of all its strategies
FirstMatchCombined(containers, i) ==
    IF i > Len(containers) THEN 0
    ELSE containers[i] + FirstMatchCombined(containers, i + 1)

RECURSIVE FirstMatch(_, _)
\* job_cards: the matches of the first strategy that matches anything
FirstMatch(containers, i) ==
    IF i > Len(containers) THEN 0
    ELSE IF containers[i] # 0 THEN containers[i]
    ELSE FirstMatch(containers, i + 1)

FindJobCards(resp) == FirstMatch(resp.containers, 1)

\* no strategy of the cascade matches any element of the page
NoContainer(resp) == \A i \in 1..Len(resp.containers) : resp.containers[i] = 0

\* what a parsed page holds for the cascade: the strategies that match
\* something, how many elements the first of them matches, and whether a
\* strategy tried after it matches elements too
Matching(containers) == {k \in 1..Len(containers) : containers[k] # 0}
NoPage == [first |-> 0, lower |-> FALSE]
Matched(containers) ==
    IF Matching(containers) = {} THEN NoPage
    ELSE LET k == CHOOSE m \in Matching(containers) :
                      \A j \in Matching(containers) : m <= j
         IN  [first |-> containers[k],
              lower |-> \E j \in Matching(containers) : j > k]

(* ---------------- LinkedInBot._fetch_job_description ------------------ *)
\* a detail page: the element of each of the four description selectors
\* (found, length of its text) and the divs with a class, in document order
\* (length of the text, whether the class mentions 'description')
NoText == [found |-> FALSE, len |-> 0]
Text(n) == [found |-> TRUE, len |-> n]
Div(n, d) == [len |-> n, descClass |-> d]
DetailError == [kind |-> "error", status |-> 0, sel |-> <<NoText, NoText, NoText, NoText>>, divs |-> << >>]
DetailPage(st, sel, divs) == [kind |-> "response", status |-> st, sel |-> sel, divs |-> divs]

DetailResponses ==
    { DetailError,
      DetailPage(404, <<Text(60), NoText, NoText, NoText>>, << >>),
      DetailPage(200, <<NoText, NoText, NoText, NoText>>, << >>),
      DetailPage(200, <<NoText, Text(0), NoText, NoText>>, <<Div(0, TRUE)>>),
      DetailPage(200, <<Text(50), NoText, Text(51), NoText>>, << >>),
      DetailPage(200, <<NoText, Text(2500), NoText, NoText>>, << >>),
      DetailPage(200, <<NoText, NoText, NoText, NoText>>,
                 <<Div(100, TRUE), Div(150, FALSE), Div(2500, TRUE)>>) }

Min(a, b) == IF a < b THEN a ELSE b

RECURSIVE SelectorCascade(_, _)
\* the loop over description_selectors; 0 when it returns nothing
SelectorCascade(sel, i) ==
    IF i > Len(sel) THEN 0
    ELSE IF sel[i].found /\ sel[i].len > MinDescLen THEN Min(sel[i].len, MaxDescLen)
    ELSE SelectorCascade(sel, i + 1)

RECURSIVE DivFallback(_, _)
\* the loop over soup.find_all('div', class_=True)
DivFallback(divs, i) ==
    IF i > Len(divs) THEN 0
    ELSE IF FallbackMinLen < divs[i].len /\ divs[i].len < FallbackMaxLen /\ divs[i].descClass
         THEN Min(divs[i].len, MaxDescLen)
    ELSE DivFallback(divs, i + 1)

\* the length of the text _fetch_job_description returns, 0 for ""
FetchJobDescription(resp) ==
    IF resp.kind = "error" THEN 0
    ELSE IF resp.status # 200 THEN 0
    ELSE IF SelectorCascade(resp.sel, 1) # 0 THEN SelectorCascade(resp.sel, 1)
    ELSE DivFallback(resp.divs, 1)

\* the detail fetch failed, answered a status other than 200, or the page
\* holds no text under any selector of the cascade
DetailFailure(resp) ==
    \/ resp.kind = "error"
    \/ resp.status # 200
    \/ /\ \A i \in 1..Len(resp.sel) : ~resp.sel[i].found \/ resp.sel[i].len = 0
       /\ \A i \in 1..Len(resp.divs) : ~resp.divs[i].descClass \/ resp.divs[i].len = 0

(* ------------------------------ state --------------------------------- *)
VARIABLES
    bot,          \* the class whose search_jobs runs
    role,         \* argument role
    max_jobs,     \* argument max_jobs
    jobs,         \* the local list jobs
    pc,           \* "page_loop", "cards", "backfill", "done"
    pageIdx,      \* position in page_starts / range(1, 9), from 1
    cardsLeft,    \* cards of job_cards the for loop may still take
    bfIdx,        \* position of the backfill loop in jobs, from 1
    outcome,      \* "running", "returned"
    pageFetches,  \* history: calls of session.get for a search page
    detailLog,    \* history: the detail fetches, in order
    lastFetch,    \* history: the latest page fetch: "none", "fail", "ok",
                  \*          "empty" (fetched, no container element on it)
    lastCard,     \* history: the card the latest step examined, or NoCard
    lastVerdict,  \* history: "accepted", "skipped" for lastCard, else "none"
    paced,        \* history: time.sleep ran since the latest fetch
    anyPageOk,    \* history: some page fetch has succeeded
    lastPage,     \* history: the page the latest step fetched and parsed:
                  \*          what its strategies matched, else NoPage
    cv_text,      \* JobMatcher: argument cv_text
    job_text,     \* JobMatcher: argument job_text
    tfidf_score,  \* get_combined_score: local tfidf_score, in tenths
    keyword_score,\* get_combined_score: local keyword_score, in tenths
    combined,     \* get_combined_score: the value returned, in tenths
    prev_cv,      \* history: cv_text of the call before
    prev_keyword, \* history: keyword_score of the call before, or NoScore
    cv_keywords,  \* main.search_jobs: cv_data["keywords"]
    search_title, \* main.search_jobs: search_title
    raw_jobs,     \* main.search_jobs: the list the bot returned
    matched_jobs  \* main.search_jobs: the list of JobResponse, match_score
                  \*                   in tenths

vars == <<bot, role, max_jobs, jobs, pc, pageIdx, cardsLeft, bfIdx,
          outcome, pageFetches, detailLog, lastFetch, lastCard, lastVerdict,
          paced, anyPageOk, lastPage,
          cv_text, job_text, tfidf_score, keyword_score, combined, prev_cv,
          prev_keyword, cv_keywords, search_title, raw_jobs, matched_jobs>>

\* the variables of search_jobs of the bots other than pc
crawlVars == <<bot, role, max_jobs, jobs, pageIdx, cardsLeft, bfIdx, outcome,
               pageFetches, detailLog, lastFetch, lastCard, lastVerdict,
               paced, anyPageOk, lastPage>>
\* the variables of JobMatcher
matchVars == <<cv_text, job_text, tfidf_score, keyword_score, combined,
               prev_cv, prev_keyword>>
\* the variables of the ranking loop of main.search_jobs
rankVars == <<cv_keywords, search_title, raw_jobs, matched_jobs>>

\* no score computed yet
NoScore == -1

\* search_jobs of a bot is not under way
CrawlIdle ==
    /\ bot = "LinkedInBot"
    /\ role = Empty
    /\ max_jobs = 0
    /\ jobs = << >>
    /\ pageIdx = 1
    /\ cardsLeft = 0
    /\ bfIdx = 1
    /\ outcome = "running"
    /\ pageFetches = 0
    /\ detailLog = << >>
    /\ lastFetch = "none"
    /\ lastCard = NoCard
    /\ lastVerdict = "none"
    /\ paced = FALSE
    /\ anyPageOk = FALSE
    /\ lastPage = NoPage

\* no call of JobMatcher is under way
MatchIdle ==
    /\ cv_text = Empty
    /\ job_text = Empty
    /\ tfidf_score = NoScore
    /\ keyword_score = NoScore
    /\ combined = NoScore
    /\ prev_cv = Empty
    /\ prev_keyword = NoScore

\* the ranking loop of main.search_jobs is not under way
RankIdle ==
    /\ cv_keywords = << >>
    /\ search_title = Empty
    /\ raw_jobs = << >>
    /\ matched_jobs = << >>

Init ==
    /\ bot \in Bots
    /\ role \in Roles
    /\ max_jobs \in (-1)..MaxJobs
    /\ jobs = << >>
    /\ pc = "page_loop"
    /\ pageIdx = 1
    /\ cardsLeft = 0
    /\ bfIdx = 1
    /\ outcome = "running"
    /\ pageFetches = 0
    /\ detailLog = << >>
    /\ lastFetch = "none"
    /\ lastCard = NoCard
    /\ lastVerdict = "none"
    /\ paced = FALSE
    /\ anyPageOk = FALSE
    /\ lastPage = NoPage
    /\ MatchIdle
    /\ RankIdle

\* the budget test written with > for >=
BudgetReachedOffByOne == Len(jobs) > max_jobs

\* len(jobs) >= max_jobs
BudgetReached == Len(jobs) >= max_jobs

\* the page loop ends: the sequence is exhausted, or the break of its first
\* line.  LinkedInBot goes on to the descriptions, KariyerNetBot returns.
PageLoopExit ==
    /\ pc = "page_loop"
    /\ pageIdx > NumPages \/ BudgetReached
    /\ pc' = IF bot = "LinkedInBot" THEN "backfill" ELSE "done"
    /\ outcome' = IF bot = "LinkedInBot" THEN outcome ELSE "returned"
    /\ lastCard' = NoCard
    /\ lastVerdict' = "none"
    /\ lastPage' = NoPage
    /\ UNCHANGED <<matchVars, rankVars>>
    /\ UNCHANGED <<bot, role, max_jobs, jobs, pageIdx, cardsLeft, bfIdx,
                   pageFetches, detailLog, lastFetch, paced, anyPageOk>>

\* a failed fetch leaves the page loop (break written for continue)
PageFailedBreaks ==
    /\ lastPage' = NoPage
    /\ pageIdx' = NumPages + 1
    /\ lastFetch' = "fail"
    /\ UNCHANGED <<pc, cardsLeft, anyPageOk, outcome>>

\* except requests.RequestException / status_code != 200: continue with the
\* next page, without sleeping
PageFailed ==
    /\ lastPage' = NoPage
    /\ pageIdx' = pageIdx + 1
    /\ lastFetch' = "fail"
    /\ UNCHANGED <<pc, cardsLeft, anyPageOk, outcome>>

\* the page was fetched and parsed: job_cards is chosen and the card loop starts
PageParsed(resp) ==
    /\ pc' = "cards"
    /\ cardsLeft' = FindJobCards(resp)
    /\ lastFetch' = IF NoContainer(resp) THEN "empty" ELSE "ok"
    /\ anyPageOk' = TRUE
    /\ lastPage' = Matched(resp.containers)
    /\ UNCHANGED <<pageIdx, outcome>>

\* session.get of the next search page and what follows it up to the card loop
FetchPage ==
    /\ pc = "page_loop"
    /\ pageIdx <= NumPages
    /\ ~BudgetReached
    /\ \E resp \in PageResponses :
         /\ pageFetches' = pageFetches + 1
         /\ paced' = FALSE
         /\ IF PageFetchFails(bot, resp) THEN PageFailed ELSE PageParsed(resp)
    /\ lastCard' = NoCard
    /\ lastVerdict' = "none"
    /\ UNCHANGED <<matchVars, rankVars>>
    /\ UNCHANGED <<bot, role, max_jobs, jobs, bfIdx, detailLog>>

\* a pass in which the error of a card ends the card loop of the page
ProcessCardAbortsPage ==
    /\ pc = "cards"
    /\ cardsLeft > 0
    /\ ~BudgetReached
    /\ \E card \in CardsOf(bot) :
         /\ jobs' = ProcessOf(bot, jobs, card, role)
         /\ lastCard' = card
         /\ lastVerdict' = IF jobs' # jobs THEN "accepted" ELSE "skipped"
         /\ cardsLeft' = IF card.raises THEN 0 ELSE cardsLeft - 1
    /\ lastPage' = NoPage
    /\ UNCHANGED <<matchVars, rankVars>>
    /\ UNCHANGED <<bot, role, max_jobs, pc, pageIdx, bfIdx, outcome,
                   pageFetches, detailLog, lastFetch, paced, anyPageOk>>

\* one pass of the body of `for card in job_cards`
ProcessCard ==
    /\ pc = "cards"
    /\ cardsLeft > 0
    /\ ~BudgetReached
    /\ \E card \in CardsOf(bot) :
         /\ jobs' = ProcessOf(bot, jobs, card, role)
         /\ lastCard' = card
         /\ lastVerdict' = IF jobs' # jobs THEN "accepted" ELSE "skipped"
    /\ cardsLeft' = cardsLeft - 1
    /\ lastPage' = NoPage
    /\ UNCHANGED <<matchVars, rankVars>>
    /\ UNCHANGED <<bot, role, max_jobs, pc, pageIdx, bfIdx, outcome,
                   pageFetches, detailLog, lastFetch, paced, anyPageOk>>

\* the card loop ends (exhausted, or its break), then time.sleep and the
\* next page
EndPage ==
    /\ pc = "cards"
    /\ cardsLeft = 0 \/ BudgetReached
    /\ pc' = "page_loop"
    /\ pageIdx' = pageIdx + 1
    /\ cardsLeft' = 0
    /\ paced' = TRUE
    /\ lastCard' = NoCard
    /\ lastVerdict' = "none"
    /\ lastPage' = NoPage
    /\ UNCHANGED <<matchVars, rankVars>>
    /\ UNCHANGED <<bot, role, max_jobs, jobs, bfIdx, outcome,
                   pageFetches, detailLog, lastFetch, anyPageOk>>

\* the test without its comparison with '#'
HasLinkAlways(job) == job.link # Empty

\* if job.get('link') and job['link'] != '#'
HasLink(job) == job.link # Empty /\ job.link # Hash

\* a pass that drops the record for which no description was found
BackfillDropsEmpty ==
    /\ pc = "backfill"
    /\ bfIdx <= Len(jobs)
    /\ IF HasLink(jobs[bfIdx])
       THEN \E resp \in DetailResponses :
              /\ jobs' = IF FetchJobDescription(resp) # 0
                         THEN [jobs EXCEPT ![bfIdx].description = FetchJobDescription(resp)]
                         ELSE SubSeq(jobs, 1, bfIdx - 1) \o SubSeq(jobs, bfIdx + 1, Len(jobs))
              /\ detailLog' = Append(detailLog,
                                     [idx |-> bfIdx, failed |-> DetailFailure(resp)])
              /\ paced' = TRUE
       ELSE UNCHANGED <<jobs, detailLog, paced>>
    /\ bfIdx' = bfIdx + 1
    /\ lastPage' = NoPage
    /\ UNCHANGED <<matchVars, rankVars>>
    /\ UNCHANGED <<bot, role, max_jobs, pc, pageIdx, cardsLeft, outcome,
                   pageFetches, lastFetch, lastCard, lastVerdict, anyPageOk>>

\* one pass of `for i, job in enumerate(jobs)`: a detail fetch and a sleep
\* for a job with a link, nothing for a job whose link is '#'
Backfill ==
    /\ pc = "backfill"
    /\ bfIdx <= Len(jobs)
    /\ IF HasLink(jobs[bfIdx])
       THEN \E resp \in DetailResponses :
              /\ jobs' = IF FetchJobDescription(resp) # 0
                         THEN [jobs EXCEPT ![bfIdx].description = FetchJobDescription(resp)]
                         ELSE jobs
              /\ detailLog' = Append(detailLog,
                                     [idx |-> bfIdx, failed |-> DetailFailure(resp)])
              /\ paced' = TRUE
       ELSE UNCHANGED <<jobs, detailLog, paced>>
    /\ bfIdx' = bfIdx + 1
    /\ lastPage' = NoPage
    /\ UNCHANGED <<matchVars, rankVars>>
    /\ UNCHANGED <<bot, role, max_jobs, pc, pageIdx, cardsLeft, outcome,
                   pageFetches, lastFetch, lastCard, lastVerdict, anyPageOk>>

\* return jobs (LinkedInBot)
Return ==
    /\ pc = "backfill"
    /\ bfIdx > Len(jobs)
    /\ pc' = "done"
    /\ outcome' = "returned"
    /\ lastPage' = NoPage
    /\ UNCHANGED <<matchVars, rankVars>>
    /\ UNCHANGED <<bot, role, max_jobs, jobs, pageIdx, cardsLeft, bfIdx,
                   pageFetches, detailLog, lastFetch, lastCard, lastVerdict,
                   paced, anyPageOk>>

Next ==
    \/ PageLoopExit
    \/ FetchPage
    \/ ProcessCard
    \/ EndPage
    \/ Backfill
    \/ Return

Spec == Init /\ [][Next]_vars

\* search_jobs is one sequential call: it keeps taking steps until it returns
\* (termination does not read the role: it is checked for one role)
FairInit == Init /\ role = Dev
FairSpec == FairInit /\ [][Next]_vars /\ WF_vars(Next)

TypeOK ==
    /\ Len(jobs) <= MaxJobs
    /\ pc \in {"page_loop", "cards", "backfill", "done", "call", "scored",
               "rank", "ranked"}

(* ========================= matcher.py: JobMatcher ===================== *)
\* the one decimal of round(x, 1): scores are counted in tenths
Tenths == 10
\* similarity * 100: the scale of a score
Percent == 100
\* a similarity of 1.0, similarities being counted in ten-thousandths
SimUnit == 10000
\* the weights 0.6 and 0.4 are counted in tenths
WeightUnit == 10
\* tfidf_score * 0.6
TfidfWeight == 6
\* keyword_score weighted like tfidf_score
KeywordWeightAsTfidf == TfidfWeight
\* keyword_score * 0.4
KeywordWeight == 4
\* len(w) > 2
MinTokenLen == 2

AsciiUpper ==
    <<"A","B","C","D","E","F","G","H","I","J","K","L","M","N","O","P","Q","R",
      "S","T","U","V","W","X","Y","Z">>
AsciiLower ==
    <<"a","b","c","d","e","f","g","h","i","j","k","l","m","n","o","p","q","r",
      "s","t","u","v","w","x","y","z">>
AsciiDigits == {"0","1","2","3","4","5","6","7","8","9"}
Range(f) == {f[i] : i \in DOMAIN f}

\* the lowercase letter of each uppercase letter
LowerOf ==
    [c \in Range(AsciiUpper) |->
        AsciiLower[CHOOSE k \in 1..Len(AsciiUpper) : AsciiUpper[k] = c]]
\* str.lower() of one character
LowerChar(c) == IF c \in DOMAIN LowerOf THEN LowerOf[c] ELSE c
\* text.lower()
Lower(s) == [i \in 1..Len(s) |-> LowerChar(s[i])]
\* \s
IsSpace(c) == c \in {" ", "\t", "\n"}
\* [a-zA-Z0-9]
AlnumChars == Range(AsciiUpper) \cup Range(AsciiLower) \cup AsciiDigits
IsAlnum(c) == c \in AlnumChars

RECURSIVE RunEnd(_, _)
\* the position after the run of \S that position i is in: where a greedy
\* \S+ begun at i stops
RunEnd(s, i) ==
    IF i > Len(s) THEN i
    ELSE IF IsSpace(s[i]) THEN i
    ELSE RunEnd(s, i + 1)

\* s has p at position i
HasAt(s, i, p) == i + Len(p) - 1 <= Len(s) /\ SubSeq(s, i, i + Len(p) - 1) = p
\* http\S+|www\S+ matches at position i
UrlAt(s, i) ==
    \/ HasAt(s, i, Http) /\ i + 4 <= Len(s) /\ ~IsSpace(s[i + 4])
    \/ HasAt(s, i, <<"w","w","w">>) /\ i + 3 <= Len(s) /\ ~IsSpace(s[i + 3])

RECURSIVE RemoveUrls(_, _)
\* re.sub(r'http\S+|www\S+', '', text), from position i on
RemoveUrls(s, i) ==
    IF i > Len(s) THEN << >>
    ELSE IF UrlAt(s, i) THEN RemoveUrls(s, RunEnd(s, i))
    ELSE <<s[i]>> \o RemoveUrls(s, i + 1)

\* \S+@\S+ matches at position i
EmailAt(s, i) ==
    /\ ~IsSpace(s[i])
    /\ \E j \in (i + 1)..(RunEnd(s, i) - 2) : s[j] = "@"

RECURSIVE RemoveEmails(_, _)
\* re.sub(r'\S+@\S+', '', text), from position i on
RemoveEmails(s, i) ==
    IF i > Len(s) THEN << >>
    ELSE IF EmailAt(s, i) THEN RemoveEmails(s, RunEnd(s, i))
    ELSE <<s[i]>> \o RemoveEmails(s, i + 1)

\* re.sub(r'[^a-zA-Z0-9\s]', ' ', text)
BlankSpecials(s) ==
    [i \in 1..Len(s) |-> IF IsAlnum(s[i]) \/ IsSpace(s[i]) THEN s[i] ELSE " "]

RECURSIVE Split(_, _)
\* text.split(), from position i on: the runs of non-whitespace
Split(s, i) ==
    IF i > Len(s) THEN << >>
    ELSE IF IsSpace(s[i]) THEN Split(s, i + 1)
    ELSE <<SubSeq(s, i, RunEnd(s, i) - 1)>> \o Split(s, RunEnd(s, i))

RECURSIVE Join(_)
\* ' '.join(words)
Join(words) ==
    IF words = << >> THEN << >>
    ELSE IF Len(words) = 1 THEN words[1]
    ELSE words[1] \o <<" ">> \o Join(Tail(words))

\* re.sub(r'\s+', ' ', text).strip()
CollapseSpaces(s) == Join(Split(s, 1))

\* JobMatcher._preprocess_text
PreprocessText(text) ==
    IF text = Empty THEN Empty
    ELSE CollapseSpaces(BlankSpecials(RemoveEmails(RemoveUrls(Lower(text), 1), 1)))

\* the set of words kept down to two characters (>= written for >)
KeywordSetFromTwo(clean) == {w \in Range(Split(clean, 1)) : Len(w) >= MinTokenLen}

\* set(w for w in clean.split() if len(w) > 2)
KeywordSet(clean) == {w \in Range(Split(clean, 1)) : Len(w) > MinTokenLen}

\* round(n / d, 0) for n >= 0, d > 0: the nearest integer, a tie to the
\* even one
RoundDiv(n, d) ==
    LET q == n \div d
        r == n % d
    IN  IF 2 * r < d THEN q
        ELSE IF 2 * r > d THEN q + 1
        ELSE IF q % 2 = 0 THEN q ELSE q + 1

Max(a, b) == IF a > b THEN a ELSE b

\* what fit_transform and cosine_similarity do with the two cleaned texts:
\* they raise (no term is left in the vocabulary), or give a similarity
VectorizerOutcomes ==
    [raises : {TRUE}, similarity : {0}]
    \cup [raises : {FALSE}, similarity : {0, 3333, 4285, 9995, SimUnit, SimUnit + 1}]

\* JobMatcher.calculate_match_score, in tenths
CalculateMatchScore(cv, job, out) ==
    IF PreprocessText(cv) = Empty \/ PreprocessText(job) = Empty THEN 0
    ELSE IF out.raises THEN 0
    ELSE Max(0, Min(Percent * Tenths,
                    RoundDiv(out.similarity * Percent * Tenths, SimUnit)))

\* the overlap taken over the union of the two sets (a Jaccard index)
CalculateKeywordOverlapJaccard(cv, job) ==
    IF PreprocessText(cv) = Empty \/ PreprocessText(job) = Empty THEN 0
    ELSE LET cv_keywords_set == KeywordSet(PreprocessText(cv))
             job_keywords == KeywordSet(PreprocessText(job))
         IN  IF job_keywords = {} THEN 0
             ELSE Min(Percent * Tenths,
                      RoundDiv(Cardinality(cv_keywords_set \cap job_keywords)
                                 * Percent * Tenths,
                               Cardinality(cv_keywords_set \cup job_keywords)))

\* JobMatcher.calculate_keyword_overlap, in tenths
CalculateKeywordOverlap(cv, job) ==
    IF PreprocessText(cv) = Empty \/ PreprocessText(job) = Empty THEN 0
    ELSE LET cv_keywords_set == KeywordSet(PreprocessText(cv))
             job_keywords == KeywordSet(PreprocessText(job))
         IN  IF job_keywords = {} THEN 0
             ELSE Min(Percent * Tenths,
                      RoundDiv(Cardinality(cv_keywords_set \cap job_keywords)
                                 * Percent * Tenths,
                               Cardinality(job_keywords)))

\* round(tfidf_score * 0.6 + keyword_score * 0.4, 1), in tenths
Combine(tfidf, keyword) ==
    RoundDiv(TfidfWeight * tfidf + KeywordWeight * keyword, WeightUnit)

(* ----------------------------- inputs: texts -------------------------- *)
\* whitespace only
SpacesOnly ==
    <<" "," ">>
\* punctuation only
PunctOnly ==
    <<"!","?">>
\* a URL
UrlOnly ==
    <<"h","t","t","p",":","/","/","x",".","i","o">>
\* an e-mail address
MailOnly ==
    <<"m","e","@","x",".","i","o">>
\* one token of two characters
GoText ==
    <<"G","o">>
PythonText ==
    <<"P","y","t","h","o","n">>
GoPython ==
    <<"G","o"," ","P","y","t","h","o","n">>
PythonSql ==
    <<"p","y","t","h","o","n"," ","S","Q","L">>
\* three tokens, punctuation and a tab
PythonSqlDocker ==
    <<"P","y","t","h","o","n",","," ","S","Q","L",";","\t","D","o","c","k",
      "e","r">>
\* a token cut by punctuation, a URL, an address, double and outer spaces
Noisy ==
    <<" ","C","+","+"," ","w","w","w",".","a",".","i","o"," ","P","Y","T","H",
      "O","N"," "," ","s","q","l"," ","m","e","@","x",".","i","o"," ">>
ProfileSenior ==
    <<"S","e","n","i","o","r"," ","P","y","t","h","o","n"," ","D","e","v","e",
      "l","o","p","e","r"," ","w","i","t","h"," ","D","o","c","k","e","r"," ",
      "a","n","d"," ","F","a","s","t","A","P","I"," ","e","x","p","e","r","i",
      "e","n","c","e">>
JobPython ==
    <<"P","y","t","h","o","n"," ","D","e","v","e","l","o","p","e","r"," ","D",
      "o","c","k","e","r"," ","F","a","s","t","A","P","I"," ","m","i","c","r",
      "o","s","e","r","v","i","c","e","s">>
JobJava ==
    <<"J","a","v","a"," ","S","p","r","i","n","g"," ","B","o","o","t"," ","O",
      "r","a","c","l","e"," ","e","n","t","e","r","p","r","i","s","e">>

Texts ==
    {Empty, SpacesOnly, PunctOnly, UrlOnly, MailOnly, GoText, PythonText,
     GoPython, PythonSql, PythonSqlDocker, Noisy, ProfileSenior, JobPython,
     JobJava}

(* -------------------- calls of get_combined_score --------------------- *)
MatchInit ==
    /\ pc = "call"
    /\ cv_text \in Texts
    /\ job_text \in Texts
    /\ tfidf_score = NoScore
    /\ keyword_score = NoScore
    /\ combined = NoScore
    /\ prev_cv = Empty
    /\ prev_keyword = NoScore
    /\ RankIdle
    /\ CrawlIdle

\* JobMatcher.get_combined_score(cv_text, job_text)
GetCombinedScore ==
    /\ pc = "call"
    /\ \E out \in VectorizerOutcomes :
         tfidf_score' = CalculateMatchScore(cv_text, job_text, out)
    /\ keyword_score' = CalculateKeywordOverlap(cv_text, job_text)
    /\ combined' = Combine(tfidf_score', keyword_score')
    /\ pc' = "scored"
    /\ UNCHANGED <<cv_text, job_text, prev_cv, prev_keyword>>
    /\ UNCHANGED <<crawlVars, rankVars>>

\* the caller scores the same job text against another profile text
NextCall ==
    /\ pc = "scored"
    /\ prev_keyword = NoScore
    /\ \E text \in Texts : cv_text' = text
    /\ prev_cv' = cv_text
    /\ prev_keyword' = keyword_score
    /\ pc' = "call"
    /\ UNCHANGED <<job_text, tfidf_score, keyword_score, combined>>
    /\ UNCHANGED <<crawlVars, rankVars>>

MatchNext ==
    \/ GetCombinedScore
    \/ NextCall

MatchSpec == MatchInit /\ [][MatchNext]_vars

(* ================= main.py: the ranking of search_jobs ================ *)
\* raw_jobs has at most MaxRaw records
MaxRaw == 2
\* sum(15 for word in role_words ...)
RoleBonus == 15
\* desc_bonus = 10
DescBonus == 10
\* the length test of a role word written len(word) > 2
RoleWordLenTwo == MinTokenLen
\* len(word) > 3
RoleWordLen == 3

\* sub in s
Contains(s, sub) ==
    \E i \in 0..(Len(s) - Len(sub)) : SubSeq(s, i + 1, i + Len(sub)) = sub

\* the body of `for job in raw_jobs` up to round(score, 1): the score of
\* one job, in tenths
MatchScore(rjob, keywords, title) ==
    LET job_title == Lower(rjob.title)
        job_company == Lower(rjob.company)
        job_desc == Lower(rjob.description)
        text == job_title \o <<" ">> \o job_company \o <<" ">> \o job_desc
        \* sum(1 for kw in cv_keywords_lower if kw in job_text)
        keyword_matches ==
            Cardinality({k \in 1..Len(keywords) : Contains(text, Lower(keywords[k]))})
        role_words == Split(Lower(title), 1)
        \* sum(15 for word in role_words if word in job_title and len(word) > 3)
        role_match_bonus ==
            RoleBonus * Cardinality({k \in 1..Len(role_words) :
                Contains(job_title, role_words[k]) /\ Len(role_words[k]) > RoleWordLen})
        desc_bonus == IF job_desc # Empty /\ keyword_matches > 0 THEN DescBonus ELSE 0
        n == IF keywords # << >> THEN Len(keywords) ELSE 1
    IN  \* min(100, keyword_score + role_match_bonus + desc_bonus) over n
        RoundDiv(Min(Percent * Tenths * n,
                     keyword_matches * Percent * Tenths
                       + n * Tenths * (role_match_bonus + desc_bonus)),
                 n)

\* JobResponse(title=..., company=..., match_score=score, description=...)
JobResponse(rjob, score) ==
    [title |-> rjob.title, company |-> rjob.company,
     description |-> rjob.description, match_score |-> score]

RECURSIVE InsertByScore(_, _)
\* x put into the list sorted by match_score, highest first, after the
\* entries of the same score
InsertByScore(sorted, x) ==
    IF sorted = << >> THEN <<x>>
    ELSE IF sorted[1].match_score >= x.match_score
         THEN <<sorted[1]>> \o InsertByScore(Tail(sorted), x)
         ELSE <<x>> \o sorted

RECURSIVE SortByScore(_, _)
\* matched_jobs.sort(key=lambda x: x.match_score, reverse=True): stable
SortByScore(list, i) ==
    IF i = 0 THEN << >>
    ELSE InsertByScore(SortByScore(list, i - 1), list[i])

(* -------------------------- inputs: ranking --------------------------- *)
SqlText ==
    <<"S","Q","L">>
PythonDeveloper ==
    <<"P","y","t","h","o","n"," ","D","e","v","e","l","o","p","e","r">>
SeniorPythonDeveloper ==
    <<"S","e","n","i","o","r"," "," ","P","y","t","h","o","n"," ","D","e","v",
      "e","l","o","p","e","r">>
SqlAndDocker ==
    <<"S","Q","L"," ","a","n","d"," ","D","o","c","k","e","r",","," ","G",
      "o">>
Developer ==
    <<"D","e","v","e","l","o","p","e","r">>

\* cv_data["keywords"]
KeywordLists == {<< >>, <<PythonText>>, <<PythonText, SqlText, GoText>>}
\* job_title or cv_data["job_title"]
SearchTitles == {Dev, PythonDeveloper, SeniorPythonDeveloper}
\* records as a bot returns them: title, company and description
RawJob(t, c, d) == [title |-> t, company |-> c, description |-> d]
RawJobs ==
    {RawJob(PythonDeveloper, Acme, Empty),
     RawJob(PythonDeveloper, Acme, SqlAndDocker),
     RawJob(Developer, Sirket, SqlAndDocker),
     RawJob(DevOps, Acme, JobJava),
     RawJob(JobJava, GoText, Empty)}
\* the lists of 1 to n records
RawJobLists(n) == UNION {[1..k -> RawJobs] : k \in 1..n}

(* --------------------------- the ranking loop ------------------------- *)
RankInit ==
    /\ pc = "rank"
    /\ cv_keywords \in KeywordLists
    /\ search_title \in SearchTitles
    /\ raw_jobs \in RawJobLists(MaxRaw)
    /\ matched_jobs = << >>
    /\ MatchIdle
    /\ CrawlIdle

\* one pass of `for job in raw_jobs`
RankJob ==
    /\ pc = "rank"
    /\ Len(matched_jobs) < Len(raw_jobs)
    /\ LET rjob == raw_jobs[Len(matched_jobs) + 1]
       IN  matched_jobs' = Append(matched_jobs,
                                  JobResponse(rjob, MatchScore(rjob, cv_keywords, search_title)))
    /\ UNCHANGED <<pc, cv_keywords, search_title, raw_jobs>>
    /\ UNCHANGED <<crawlVars, matchVars>>

\* the loop is over: matched_jobs.sort and the response
RankSort ==
    /\ pc = "rank"
    /\ Len(matched_jobs) = Len(raw_jobs)
    /\ matched_jobs' = SortByScore(matched_jobs, Len(matched_jobs))
    /\ pc' = "ranked"
    /\ UNCHANGED <<cv_keywords, search_title, raw_jobs>>
    /\ UNCHANGED <<crawlVars, matchVars>>

RankNext ==
    \/ RankJob
    \/ RankSort

RankSpec == RankInit /\ [][RankNext]_vars

(* ============================ properties ============================== *)
\* the title a card yields before any substitution, Empty when it yields none
RawTitle(b, card) ==
    IF card.raises THEN Empty
    ELSE IF b = "LinkedInBot" THEN LinkedInTitle(card) ELSE KariyerRawTitle(card)

\* the record a card stands for after extraction and substitution, or NoJob
Candidate(b, card, search_role) ==
    IF b = "LinkedInBot"
    THEN IF LinkedInExtract(card) = NoJob THEN NoJob
         ELSE LinkedInSubstitute(LinkedInExtract(card), search_role)
    ELSE KariyerExtract(card, search_role)

\* C1: budget invariant: with max_jobs > 0 the list jobs never holds more
\* than max_jobs records, at any point of the crawl and when it is returned
C1_Budget == max_jobs > 0 => Len(jobs) <= max_jobs

\* a crawl that filled its budget before the last page and has returned
C1_Witness ==
    /\ pc = "done"
    /\ max_jobs = MaxJobs
    /\ Len(jobs) = max_jobs
    /\ pageFetches < NumPages

\* C2: dedup invariant: no two records of jobs have the same (title, company)
\* as emitted, during the crawl and in the list returned
C2_Dedup ==
    \A i, j \in 1..Len(jobs) :
        i # j => ~(jobs[i].title = jobs[j].title /\ jobs[i].company = jobs[j].company)

\* a card with a masked title was skipped because the substituted title and
\* the company are those of a record accepted earlier
C2_Witness ==
    /\ lastCard # NoCard
    /\ lastVerdict = "skipped"
    /\ HasChar(RawTitle(bot, lastCard), "*")
    /\ Candidate(bot, lastCard, role) # NoJob
    /\ IsDuplicate(jobs, Candidate(bot, lastCard, role).title,
                   Candidate(bot, lastCard, role).company)
    /\ Len(jobs) >= 1

\* the company a card yields before any substitution
RawCompany(b, card) ==
    IF b = "LinkedInBot" THEN LinkedInCompany(card)
    ELSE IF card.companyElem.found THEN card.companyElem.text ELSE Sirket

Last(js) == js[Len(js)]

\* C3: obfuscation substitution: a card whose extracted title contains '*'
\* is, if accepted, recorded with title = role, a company containing '*' is
\* recorded as the fixed sentinel, and no record of jobs has a '*' in its
\* title or company, whatever the role
C3_Obfuscation ==
    /\ \A i \in 1..Len(jobs) :
         ~HasChar(jobs[i].title, "*") /\ ~HasChar(jobs[i].company, "*")
    /\ (lastVerdict = "accepted" /\ HasChar(RawTitle(bot, lastCard), "*"))
         => Last(jobs).title = role
    /\ (lastVerdict = "accepted" /\ HasChar(RawCompany(bot, lastCard), "*"))
         => Last(jobs).company = Sirket

\* C3 as amended: a card whose extracted title contains '*' is, if accepted,
\* recorded with title = role, a company containing '*' is recorded as the
\* fixed sentinel, no record has a '*' in its company, and a record has a
\* '*' in its title only when that title is the role (a role that itself
\* contains '*')
C3_ObfuscationAmended ==
    /\ \A i \in 1..Len(jobs) :
         /\ HasChar(jobs[i].title, "*") => jobs[i].title = role
         /\ ~HasChar(jobs[i].company, "*")
    /\ (lastVerdict = "accepted" /\ HasChar(RawTitle(bot, lastCard), "*"))
         => Last(jobs).title = role
    /\ (lastVerdict = "accepted" /\ HasChar(RawCompany(bot, lastCard), "*"))
         => Last(jobs).company = Sirket

\* a card with a masked title and a masked company has just been accepted
\* under a role without '*'
C3_Witness ==
    /\ lastVerdict = "accepted"
    /\ HasChar(RawTitle(bot, lastCard), "*")
    /\ HasChar(RawCompany(bot, lastCard), "*")
    /\ ~HasChar(role, "*")
    /\ Last(jobs).title = role
    /\ Last(jobs).company = Sirket

\* C4: a call with max_jobs <= 0 ends as an InputError, with no page fetch
\* and no detail fetch, and not as a normal return
C4_InputError ==
    (pc = "done" /\ max_jobs <= 0)
        => (outcome = "InputError" /\ pageFetches = 0 /\ detailLog = << >>)

\* C5: a failed page fetch keeps jobs as it is, raises nothing and moves the
\* loop to the next offset; a crawl whose fetches all fail visits every
\* offset and returns the empty list normally
C5_FailureIsolation ==
    /\ [][(pageFetches' = pageFetches + 1 /\ lastFetch' = "fail")
            => /\ jobs' = jobs
               /\ outcome' = "running"
               /\ pc' = "page_loop"
               /\ pageIdx' = pageIdx + 1]_vars
    /\ [](pc = "page_loop" /\ lastFetch = "fail" /\ pageIdx <= NumPages /\ max_jobs > Len(jobs)
            => ENABLED FetchPage)
    /\ []((pc = "done" /\ ~anyPageOk)
            => /\ jobs = << >>
               /\ outcome = "returned"
               /\ (max_jobs > 0 => pageFetches = NumPages))

\* a page fetch has just failed while jobs already holds a record, and the
\* loop stands at a further offset
C5_Witness ==
    /\ pc = "page_loop"
    /\ lastFetch = "fail"
    /\ Len(jobs) >= 1
    /\ max_jobs > Len(jobs)
    /\ pageIdx <= NumPages

\* C6: a fetched page on which no container strategy matches yields no card,
\* raises nothing, leaves jobs unchanged, and the loop goes on to the next
\* offset
C6_EmptyPage ==
    /\ [](pc = "cards" /\ lastFetch = "empty" => cardsLeft = 0 /\ lastCard = NoCard)
    /\ [][(pageFetches' = pageFetches + 1 /\ lastFetch' = "empty")
            => (jobs' = jobs /\ outcome' = "running" /\ pc' = "cards")]_vars
    /\ [][(pc = "cards" /\ lastFetch = "empty")
            => /\ pc' = "page_loop"
               /\ pageIdx' = pageIdx + 1
               /\ jobs' = jobs
               /\ outcome' = outcome]_vars

\* the loop has moved past a page without containers, keeping a record
\* accepted before it
C6_Witness ==
    /\ pc = "page_loop"
    /\ lastFetch = "empty"
    /\ pageIdx > 1
    /\ Len(jobs) >= 1

\* C7: termination: search_jobs returns; it makes at most 8 page fetches and
\* at most one detail fetch per record of jobs
C7_Termination ==
    /\ <>(pc = "done" /\ outcome = "returned")
    /\ [](pageFetches <= 8)
    /\ [](\A i \in 1..Len(jobs) :
            Cardinality({k \in 1..Len(detailLog) : detailLog[k].idx = i}) <= 1)
    /\ [](\A k \in 1..Len(detailLog) : detailLog[k].idx \in 1..Len(jobs))

\* a crawl that fetched all 8 pages, made a detail fetch and returned
C7_Witness ==
    /\ pc = "done"
    /\ pageFetches = 8
    /\ Len(detailLog) >= 1

\* C8: no record of jobs has an empty title, whatever the role, and a card
\* that yields no title is skipped
C8_TitleNeverEmpty ==
    /\ \A i \in 1..Len(jobs) : jobs[i].title # Empty
    /\ (lastCard # NoCard /\ RawTitle(bot, lastCard) = Empty)
         => lastVerdict = "skipped"

Letters ==
    {"a","b","c","d","e","f","g","h","i","j","k","l","m","n","o","p","q","r",
     "s","t","u","v","w","x","y","z"}
SchemeChars == Letters \cup {"0","1","2","3","4","5","6","7","8","9","+","-","."}
\* h begins with a URL scheme: a letter, scheme characters, then ':'
BeginsWithScheme(h) ==
    \E i \in 2..Len(h) :
        /\ h[i] = ":"
        /\ h[1] \in Letters
        /\ \A k \in 1..(i - 1) : h[k] \in SchemeChars
OriginOf(b) == IF b = "LinkedInBot" THEN LinkedInOrigin ELSE KariyerOrigin
\* the link the resolution rule gives the first <a href> of a card
RuleLink(origin, a) ==
    IF ~a.found THEN Hash
    ELSE IF StartsWith(a.href, Slash) THEN origin \o a.href
    ELSE IF BeginsWithScheme(a.href) THEN a.href
    ELSE Hash

\* C9: link resolution: the link of an accepted card is the origin joined
\* with the href when the href begins with '/', the href when it begins
\* with a scheme, '#' otherwise; every link of jobs is an absolute URL or '#'
C9_LinkResolution ==
    /\ lastVerdict = "accepted"
         => Last(jobs).link = RuleLink(OriginOf(bot), lastCard.a)
    /\ \A i \in 1..Len(jobs) :
         jobs[i].link = Hash \/ BeginsWithScheme(jobs[i].link)

\* C10: description backfill of LinkedInBot: a detail fetch is made only for
\* records with a link other than '#', exactly once for each such record the
\* loop has passed and once for each of them when search_jobs returns,
\* whatever the earlier fetches gave; a fetch that fails, answers another
\* status than 200 or finds no text leaves the description empty; nothing
\* is raised
C10_Backfill ==
    bot = "LinkedInBot" =>
      /\ \A k \in 1..Len(detailLog) :
           /\ detailLog[k].idx \in 1..Len(jobs)
           /\ jobs[detailLog[k].idx].link # Hash
           /\ detailLog[k].failed => jobs[detailLog[k].idx].description = 0
      /\ \A i \in 1..Len(jobs) :
           Cardinality({k \in 1..Len(detailLog) : detailLog[k].idx = i})
             = IF i < bfIdx /\ jobs[i].link # Hash THEN 1 ELSE 0
      /\ pc \in {"page_loop", "cards"} => bfIdx = 1
      /\ pc = "done" => (bfIdx = Len(jobs) + 1 /\ outcome = "returned")

\* a returned crawl whose first detail fetch failed and whose second one
\* gave a description
C10_Witness ==
    /\ pc = "done"
    /\ Len(detailLog) = 2
    /\ detailLog[1].failed
    /\ jobs[detailLog[1].idx].description = 0
    /\ ~detailLog[2].failed
    /\ jobs[detailLog[2].idx].description > 0

\* C11: backfill ordering and frame: a detail fetch is made only once the
\* page loop is over, and from then on no page is fetched and no card is
\* examined; a step of the backfill pass keeps the number of records, their
\* order, and the title, company, link and image_url of each: only a
\* description changes
C11_BackfillFrame ==
    [][ /\ detailLog' # detailLog => pc = "backfill"
        /\ pc \in {"backfill", "done"} =>
             /\ pc' \in {"backfill", "done"}
             /\ pageFetches' = pageFetches
             /\ lastCard' = lastCard
             /\ Len(jobs') = Len(jobs)
             /\ \A i \in 1..Len(jobs) :
                  /\ jobs'[i].title = jobs[i].title
                  /\ jobs'[i].company = jobs[i].company
                  /\ jobs'[i].link = jobs[i].link
                  /\ jobs'[i].image_url = jobs[i].image_url ]_vars

\* a returned crawl of two records: the first got a description from its
\* detail page, the fetch for the second found none
C11_Witness ==
    /\ pc = "done"
    /\ Len(jobs) = 2
    /\ Len(detailLog) = 2
    /\ jobs[1].description > 0
    /\ jobs[2].description = 0
    /\ pageFetches >= 2

\* C12: container cascade, first match wins: the cards of a parsed page are
\* the elements of the first strategy that matches at least one element,
\* all of them and nothing else: elements that only a strategy tried later
\* matches are not among them and the strategies' results are never added
\* up; the card loop takes them one by one and leaves the page only when
\* none is left or the budget is reached
C12_FirstMatchWins ==
    [][ /\ (pageFetches' = pageFetches + 1 /\ pc' = "cards") =>
             cardsLeft' = lastPage'.first
        /\ (pc = "cards" /\ pc' = "cards") =>
             (cardsLeft > 0 /\ cardsLeft' = cardsLeft - 1 /\ lastCard' # NoCard)
        /\ (pc = "cards" /\ pc' = "page_loop") =>
             (cardsLeft = 0 \/ Len(jobs) >= max_jobs) ]_vars

\* a page just parsed on which the first matching strategy matches one
\* element and a strategy tried after it matches elements as well
C12_Witness ==
    /\ pc = "cards"
    /\ lastPage.lower
    /\ lastPage.first = 1
    /\ cardsLeft = 1

\* C13: minimum-quality filter: every record of jobs has a title of at
\* least 3 characters with at most 10 spaces, in either bot, during the
\* crawl and in the list returned
C13_MinQuality ==
    \A i \in 1..Len(jobs) :
        /\ Len(jobs[i].title) >= MinTitleLen
        /\ CountChar(jobs[i].title, " ") <= MaxTitleSpaces

\* C14: partial-failure isolation per card: a card whose processing raises
\* is skipped alone: jobs is left as it was, the crawl goes on in the card
\* loop of the same page with the cards after it still to be taken, and
\* nothing is raised out of search_jobs
C14_CardIsolation ==
    /\ [][ (pc = "cards" /\ pc' = "cards" /\ lastCard'.raises) =>
             /\ jobs' = jobs
             /\ lastVerdict' = "skipped"
             /\ cardsLeft' = cardsLeft - 1
             /\ outcome' = "running" ]_vars
    /\ []((pc = "cards" /\ cardsLeft > 0 /\ Len(jobs) < max_jobs) => ENABLED ProcessCard)

\* after an accepted record a card raised and was skipped, and one more
\* card of the page is still to be taken
C14_Witness ==
    /\ pc = "cards"
    /\ lastCard # NoCard
    /\ lastCard.raises
    /\ lastVerdict = "skipped"
    /\ Len(jobs) = 1
    /\ cardsLeft = 1
    /\ max_jobs = 2

\* C19: early exit on budget: from a state in which jobs holds max_jobs
\* records no page is fetched and no card is examined any more; a page fetch
\* is always that of the next offset of the fixed sequence, so the offsets
\* are visited in increasing order, each at most once and none skipped, and
\* a crawl that ends below its budget has fetched all of them
C19_EarlyExit ==
    /\ [][ /\ Len(jobs) >= max_jobs =>
                 (pageFetches' = pageFetches /\ ~(pc = "cards" /\ pc' = "cards"))
           /\ pageFetches' # pageFetches =>
                 /\ pageFetches' = pageFetches + 1
                 /\ pageIdx = pageFetches + 1
                 /\ pageIdx <= NumPages ]_vars
    /\ []((pc \in {"backfill", "done"} /\ Len(jobs) < max_jobs) => pageFetches = NumPages)

\* the budget was reached in the middle of a page that is not the last one
C19_Witness ==
    /\ pc = "cards"
    /\ max_jobs = MaxJobs
    /\ Len(jobs) = max_jobs
    /\ cardsLeft > 0
    /\ pageFetches < NumPages

\* C20: pacing: time.sleep has run between any two successive page fetches,
\* whatever the earlier fetch gave, and between any two successive detail
\* fetches
C20_Pacing ==
    [][ /\ (pageFetches' = pageFetches + 1 /\ pageFetches >= 1) => paced
        /\ (Len(detailLog') = Len(detailLog) + 1 /\ Len(detailLog) >= 1) => paced ]_vars

\* the words of length > 2 of the normalized text
TokensOf(text) == {w \in Range(Split(PreprocessText(text), 1)) : Len(w) >= 3}

\* C15: score bounds: the values of calculate_match_score,
\* calculate_keyword_overlap and get_combined_score lie in [0, 100] (0 to
\* 1000 tenths), and each is exactly 0 when the profile text or the job text
\* is empty or normalizes to the empty string
C15_ScoreBounds ==
    pc = "scored" =>
      /\ tfidf_score \in 0..1000
      /\ keyword_score \in 0..1000
      /\ combined \in 0..1000
      /\ (\/ cv_text = << >> \/ job_text = << >>
          \/ PreprocessText(cv_text) = << >> \/ PreprocessText(job_text) = << >>)
           => (tfidf_score = 0 /\ keyword_score = 0 /\ combined = 0)

\* a call scored with a profile text that is not empty and normalizes to
\* the empty string, against a job text with words
C15_Witness ==
    /\ pc = "scored"
    /\ cv_text = UrlOnly
    /\ job_text = JobPython
    /\ combined = 0

\* C16 as stated: calculate_keyword_overlap is 0 when J is empty and else
\* 100 x |P intersect J| / |J| exactly, with P and J the words of length > 2
\* of the normalized profile and job texts; the profile of the example
\* scores >= 60 against the Python job text and 0 against the Java one
C16_KeywordOverlapExact ==
    pc = "scored" =>
      /\ IF TokensOf(job_text) = {} THEN keyword_score = 0
         ELSE keyword_score * Cardinality(TokensOf(job_text))
                = 1000 * Cardinality(TokensOf(cv_text) \cap TokensOf(job_text))
      /\ (cv_text = ProfileSenior /\ job_text = JobPython) => keyword_score >= 600
      /\ (cv_text = ProfileSenior /\ job_text = JobJava) => keyword_score = 0

\* C16 amended: calculate_keyword_overlap is 0 when J is empty and else
\* 100 x |P intersect J| / |J| rounded to one decimal: the tenth nearest to
\* it; the profile of the example scores >= 60 against the Python job text
\* and 0 against the Java one
C16_KeywordOverlapRounded ==
    pc = "scored" =>
      /\ IF TokensOf(job_text) = {} THEN keyword_score = 0
         ELSE LET n == Cardinality(TokensOf(job_text))
                  exact == 1000 * Cardinality(TokensOf(cv_text) \cap TokensOf(job_text))
              IN  /\ 2 * (keyword_score * n - exact) <= n
                  /\ 2 * (exact - keyword_score * n) <= n
      /\ (cv_text = ProfileSenior /\ job_text = JobPython) => keyword_score = 800
      /\ (cv_text = ProfileSenior /\ job_text = JobJava) => keyword_score = 0

\* the profile has one of the three words of the job text: 33.3
C16_Witness ==
    /\ pc = "scored"
    /\ cv_text = PythonText
    /\ job_text = PythonSqlDocker
    /\ keyword_score = 333

\* C17: monotonicity of calculate_keyword_overlap: for one job text, a
\* profile whose word set includes that of the profile scored before does
\* not score lower than it
C17_Monotone ==
    (pc = "scored" /\ prev_keyword # NoScore
       /\ TokensOf(prev_cv) \subseteq TokensOf(cv_text))
      => keyword_score >= prev_keyword

\* the second profile adds a word of the job text to the first and scores
\* higher
C17_Witness ==
    /\ pc = "scored"
    /\ prev_cv = PythonText
    /\ cv_text = PythonSql
    /\ job_text = PythonSqlDocker
    /\ prev_keyword = 333
    /\ keyword_score = 667

\* the score of C18 before rounding, as Numerator(e) over Denominator: the
\* keywords found in the lowercased title, company and description, 15 for
\* each word of the role longer than 3 characters found in the title, 10
\* for a description with a keyword matched
Denominator == IF cv_keywords = << >> THEN 1 ELSE Len(cv_keywords)
Found(e) ==
    Cardinality({k \in 1..Len(cv_keywords) :
        Contains(Lower(e.title) \o <<" ">> \o Lower(e.company) \o <<" ">>
                   \o Lower(e.description),
                 Lower(cv_keywords[k]))})
TitleWords(e) ==
    LET words == Split(Lower(search_title), 1)
    IN  Cardinality({k \in 1..Len(words) :
            Len(words[k]) >= 4 /\ Contains(Lower(e.title), words[k])})
Numerator(e) ==
    LET total == 1000 * Found(e)
                   + Denominator * (150 * TitleWords(e)
                        + (IF e.description # << >> /\ Found(e) > 0 THEN 100 ELSE 0))
    IN  IF total > 1000 * Denominator THEN 1000 * Denominator ELSE total

\* C18 as stated: the match_score of every job is exactly
\* min(100, base + title_bonus + desc_bonus), and lies in [0, 100]
C18_RankScoreExact ==
    \A i \in 1..Len(matched_jobs) :
        /\ matched_jobs[i].match_score * Denominator = Numerator(matched_jobs[i])
        /\ matched_jobs[i].match_score \in 0..1000

\* C18 amended: the match_score of every job is
\* min(100, base + title_bonus + desc_bonus) rounded to one decimal, the
\* tenth nearest to it, and lies in [0, 100]
C18_RankScoreRounded ==
    \A i \in 1..Len(matched_jobs) :
        /\ 2 * (matched_jobs[i].match_score * Denominator - Numerator(matched_jobs[i]))
             <= Denominator
        /\ 2 * (Numerator(matched_jobs[i]) - matched_jobs[i].match_score * Denominator)
             <= Denominator
        /\ matched_jobs[i].match_score \in 0..1000

\* one of three keywords is found, no word of the role counts and there is
\* no description: 33.3; the other job of the list is capped at 100
C18_Witness ==
    /\ pc = "ranked"
    /\ Len(cv_keywords) = 3
    /\ Len(matched_jobs) = 2
    /\ matched_jobs[1].match_score = 1000
    /\ matched_jobs[2].match_score = 333
    /\ matched_jobs[2].description = << >>

\* the record a card stands for in the reference of C21: the candidate after
\* extraction and substitution, or NoJob when the quality filter rejects it
Filtered(b, card, search_role) ==
    LET c == Candidate(b, card, search_role)
    IN  IF c = NoJob THEN NoJob
        ELSE IF Len(c.title) < 3 \/ CountChar(c.title, " ") > 10 THEN NoJob
        ELSE c

\* C21: result order and first occurrence wins: jobs is built in crawl order
\* from the candidates that pass substitution and the quality filter, each
\* (title, company) pair kept at its first occurrence: a step that examines
\* a card appends its candidate at the end when it passes the filter and is
\* no duplicate, and leaves jobs as it was otherwise; no other step removes,
\* reorders or adds a record, or changes a title or a company; jobs never
\* holds more than a positive max_jobs
C21_ResultOrder ==
    /\ [][ IF pc = "cards" /\ pc' = "cards"
           THEN LET c == Filtered(bot, lastCard', role)
                IN  IF c = NoJob THEN jobs' = jobs
                    ELSE IF \E i \in 1..Len(jobs) :
                              jobs[i].title = c.title /\ jobs[i].company = c.company
                         THEN jobs' = jobs
                         ELSE jobs' = Append(jobs, c)
           ELSE /\ Len(jobs') = Len(jobs)
                /\ \A i \in 1..Len(jobs) :
                     /\ jobs'[i].title = jobs[i].title
                     /\ jobs'[i].company = jobs[i].company ]_vars
    /\ [](max_jobs > 0 => Len(jobs) <= max_jobs)

====
